---- MODULE Spec2Model ----
(***************************************************************************)
(* A model of task01-grep/grep.py: a grep look-alike with the flags        *)
(* -E -i -v -x -c -l -L.                                                   *)
(*                                                                         *)
(* A Python str is a sequence of one-character strings.  An Optional[str]  *)
(* is a sequence of length 0 (None) or 1 (the string).                     *)
(*                                                                         *)
(* Spec   is a run of main(): argument record and file system are inputs.  *)
(* SpecFn applies compile_regex, filter_lines and prepare_output to inputs *)
(*        drawn from bounded sets.                                         *)
(***************************************************************************)
EXTENDS Integers, Sequences, FiniteSets, TLC

\* ------------------------------------------------------------- bounds ----
\* longest list of file paths on the command line (main Spec)
MaxFiles == 2
\* longest list of lines handed to filter_lines (SpecFn)
MaxLines == 2

\* ------------------------------------------------------------ strings ----
None == << >>
Some(s) == << s >>

\* Python truthiness of an Optional[str]: None and '' are falsy
Truthy(opt) == opt # None /\ opt[1] # << >>

\* sequences over S of length at most n
SeqsUpTo(S, n) == UNION {[1..k -> S] : k \in 0..n}

Digits == <<"0", "1", "2", "3", "4", "5", "6", "7", "8", "9">>

RECURSIVE Str(_)
\* str(n) for a natural number: its decimal digits
Str(n) == IF n < 10 THEN << Digits[n + 1] >>
          ELSE Str(n \div 10) \o << Digits[(n % 10) + 1] >>

\* str.lower() on the characters of the model
Lower(c) == IF c = "A" THEN "a" ELSE IF c = "B" THEN "b" ELSE c

RECURSIVE RStripNewline(_)
\* line.rstrip('\n'): drops every trailing newline
RStripNewline(line) ==
    IF line # << >> /\ line[Len(line)] = "\n"
    THEN RStripNewline(SubSeq(line, 1, Len(line) - 1))
    ELSE line

\* strip_lines
StripLines(lines) == [i \in 1..Len(lines) |-> RStripNewline(lines[i])]

\* ----------------------------------------------------- the re module ----
\* the characters the regex syntax gives a meaning to (of those modelled)
SpecialChars == {".", "(", "\\"}

RECURSIVE ReEscape(_)
\* re.escape: a backslash before every special character
ReEscape(p) ==
    IF p = << >> THEN << >>
    ELSE (IF Head(p) \in SpecialChars THEN << "\\", Head(p) >> ELSE << Head(p) >>)
         \o ReEscape(Tail(p))

Lit(c) == [kind |-> "lit", ch |-> c]
AnyChar == [kind |-> "any", ch |-> "."]

RECURSIVE ReParse(_)
\* the parser of re.compile: [ok, elems]; an escaped character is a literal,
\* "." is any character, "(" opens a group that nothing closes (re.error)
ReParse(p) ==
    IF p = << >> THEN [ok |-> TRUE, elems |-> << >>]
    ELSE IF Head(p) = "\\"
         THEN IF Len(p) = 1 THEN [ok |-> FALSE, elems |-> << >>]
              ELSE LET rest == ReParse(SubSeq(p, 3, Len(p)))
                   IN  [ok |-> rest.ok, elems |-> << Lit(p[2]) >> \o rest.elems]
    ELSE IF Head(p) = "(" THEN [ok |-> FALSE, elems |-> << >>]
    ELSE LET rest == ReParse(Tail(p))
         IN  [ok |-> rest.ok,
              elems |-> << IF Head(p) = "." THEN AnyChar ELSE Lit(Head(p)) >> \o rest.elems]

\* re.compile(pattern, flags): [ok, elems, ignorecase]; ok = FALSE is re.error
ReCompile(p, ignorecase) ==
    LET r == ReParse(p)
    IN  [ok |-> r.ok, elems |-> IF r.ok THEN r.elems ELSE << >>, ignorecase |-> ignorecase]

\* compile_regex
compile_regex(pattern, regex_mode, ignore_mode) ==
    LET p == IF ~regex_mode THEN ReEscape(pattern) ELSE pattern
    IN  IF ignore_mode THEN ReCompile(p, TRUE) ELSE ReCompile(p, FALSE)

\* one element of a compiled pattern against one character
ElemMatch(e, c, ignorecase) ==
    IF e.kind = "any" THEN c # "\n"
    ELSE IF ignorecase THEN Lower(e.ch) = Lower(c) ELSE e.ch = c

\* the compiled pattern matches line at offset off (1-based)
MatchAt(searcher, line, off) ==
    /\ off + Len(searcher.elems) - 1 <= Len(line)
    /\ \A j \in 1..Len(searcher.elems) :
          ElemMatch(searcher.elems[j], line[off + j - 1], searcher.ignorecase)

\* bool(searcher.search(line))
Search(searcher, line) == \E off \in 1..(Len(line) + 1) : MatchAt(searcher, line, off)

\* bool(searcher.fullmatch(line))
FullMatch(searcher, line) ==
    Len(searcher.elems) = Len(line) /\ MatchAt(searcher, line, 1)

\* line 74 of match_line: the verdict before -v is applied
RawMatch(line, searcher, fullmatch_mode) ==
    IF ~fullmatch_mode THEN Search(searcher, line) ELSE FullMatch(searcher, line)

\* match_line with "or" where the code has "xor"
match_line_Or(line, searcher, invert_mode, fullmatch_mode) ==
    invert_mode \/ RawMatch(line, searcher, fullmatch_mode)

\* match_line
match_line(line, searcher, invert_mode, fullmatch_mode) ==
    invert_mode # RawMatch(line, searcher, fullmatch_mode)

RECURSIVE filter_lines(_, _, _, _)
\* filter_lines: the list comprehension, left to right
filter_lines(lines, searcher, invert_mode, fullmatch_mode) ==
    IF lines = << >> THEN << >>
    ELSE (IF match_line(Head(lines), searcher, invert_mode, fullmatch_mode)
          THEN << Head(lines) >> ELSE << >>)
         \o filter_lines(Tail(lines), searcher, invert_mode, fullmatch_mode)

\* prepare_output without its assert
AssertNothing(source, only_files_mode, only_not_files_mode) == TRUE

\* the assert of prepare_output passes (it is reached only under -l / -L)
AssertSource(source, only_files_mode, only_not_files_mode) ==
    (only_files_mode \/ only_not_files_mode) => Truthy(source)

\* what print() shows for a row that is an Optional[str]
Shown(source) == IF source = None THEN <<"N", "o", "n", "e">> ELSE source[1]

\* prepare_output whose count row forgets the prefix
prepare_output_BareCount(lines, source, counting_mode, only_files_mode, only_not_files_mode) ==
    IF only_files_mode \/ only_not_files_mode
    THEN IF (lines # << >>) # only_not_files_mode THEN << Shown(source) >> ELSE << >>
    ELSE LET prefix == IF Truthy(source) THEN source[1] \o << ":" >> ELSE << >>
         IN  IF counting_mode THEN << Str(Len(lines)) >>
             ELSE [i \in 1..Len(lines) |-> prefix \o lines[i]]

\* prepare_output that inverts on -l where the code inverts on -L
prepare_output_WrongFlag(lines, source, counting_mode, only_files_mode, only_not_files_mode) ==
    IF only_files_mode \/ only_not_files_mode
    THEN IF (lines # << >>) # only_files_mode THEN << Shown(source) >> ELSE << >>
    ELSE LET prefix == IF Truthy(source) THEN source[1] \o << ":" >> ELSE << >>
             shown  == IF counting_mode THEN << Str(Len(lines)) >> ELSE lines
         IN  [i \in 1..Len(shown) |-> prefix \o shown[i]]

\* prepare_output, when its assert passes
prepare_output(lines, source, counting_mode, only_files_mode, only_not_files_mode) ==
    IF only_files_mode \/ only_not_files_mode
    THEN IF (lines # << >>) # only_not_files_mode THEN << Shown(source) >> ELSE << >>
    ELSE LET prefix == IF Truthy(source) THEN source[1] \o << ":" >> ELSE << >>
             shown  == IF counting_mode THEN << Str(Len(lines)) >> ELSE lines
         IN  [i \in 1..Len(shown) |-> prefix \o shown[i]]

\* ------------------------------------------------------------- inputs ----
\* file paths that may appear on the command line
FileNames == { <<"f">>, <<"g">> }

\* what readlines() can return: raw lines, the last one possibly unterminated
FileContents == { << >>,
                  << <<"a", "\n">>, <<"b", "a">> >>,
                  << <<"A", "\n">> >> }

\* a path is no regular file, or a regular file that open() refuses,
\* or a regular file with its lines
FileStates == { [st |-> "missing", data |-> << >>],
                [st |-> "unreadable", data |-> << >>] }
              \cup { [st |-> "ok", data |-> c] : c \in FileContents }

\* patterns of the runs of main
Patterns == { <<"a">>, <<"(">>, <<"a", ".">> }

\* -c, -l, -L are one mutually exclusive argparse group
OutputModes == { m \in [counting : BOOLEAN, only_files : BOOLEAN, only_not_files : BOOLEAN] :
                   ~(m.counting /\ m.only_files) /\ ~(m.counting /\ m.only_not_files)
                   /\ ~(m.only_files /\ m.only_not_files) }

\* parse_arguments: the Namespace it can return
Namespaces(patterns, maxFiles) ==
    { [pattern |-> p, files |-> fl, regex |-> e, invert |-> v, ignore |-> i,
       fullmatch |-> x, counting |-> m.counting, only_files |-> m.only_files,
       only_not_files |-> m.only_not_files] :
        p \in patterns, fl \in SeqsUpTo(FileNames, maxFiles),
        e \in BOOLEAN, v \in BOOLEAN, i \in BOOLEAN, x \in BOOLEAN, m \in OutputModes }

\* os.path.isfile
IsFile(filesystem, name) == filesystem[name].st # "missing"

\* "No such file: <file>"
NoSuchFile(file) ==
    <<"N", "o", " ", "s", "u", "c", "h", " ", "f", "i", "l", "e", ":", " ">> \o file

\* a searcher that was never compiled
NoSearcher == [ok |-> FALSE, elems |-> << >>, ignorecase |-> FALSE]

\* -------------------------------------------------------------- state ----
VARIABLES
    args,               \* the Namespace of parse_arguments
    fs,                 \* the file system: path -> FileStates
    pc,                 \* where main() is
    err,                \* the exception that ended the run, or "none"
    sources,            \* main: sources (Optional[str] each)
    nonexistent_files,  \* main: nonexistent_files
    all_lines,          \* main: all_lines
    searcher,           \* main: searcher
    idx,                \* index of the running for loop
    matched_lines,      \* main: matched_lines of the current source
    output_lines,       \* main: output_lines of the current source
    k,                  \* print_matched_lines: index of its for loop
    stdout,             \* rows printed to standard output
    stderr,             \* rows printed to the error stream
    checked,            \* history: split_files_by_existence has run
    compiles,           \* history: number of calls of compile_regex
    used,               \* history: the searchers filter_lines was called with
    log,                \* history: for each row of stdout, the index of its source
    fn                  \* SpecFn: inputs and results of the pure functions

vars == << args, fs, pc, err, sources, nonexistent_files, all_lines, searcher, idx,
           matched_lines, output_lines, k, stdout, stderr, checked, compiles, used,
           log, fn >>

\* the locals of main before it assigns them
Locals ==
    /\ pc = "start"
    /\ err = "none"
    /\ sources = << >>
    /\ nonexistent_files = << >>
    /\ all_lines = << >>
    /\ searcher = NoSearcher
    /\ idx = 0
    /\ matched_lines = << >>
    /\ output_lines = << >>
    /\ k = 0
    /\ stdout = << >>
    /\ stderr = << >>
    /\ checked = FALSE
    /\ compiles = 0
    /\ used = {}
    /\ log = << >>

FnIdle == [pc |-> "idle"]

Init ==
    /\ args \in Namespaces(Patterns, MaxFiles)
    /\ fs \in [FileNames -> FileStates]
    /\ Locals
    /\ fn = FnIdle

\* ------------------------------------------------ split_files_by_existence
RECURSIVE ExistingFiles(_, _)
ExistingFiles(filesystem, file_names) ==
    IF file_names = << >> THEN << >>
    ELSE (IF IsFile(filesystem, Head(file_names)) THEN << Head(file_names) >> ELSE << >>)
         \o ExistingFiles(filesystem, Tail(file_names))

RECURSIVE NonexistentFiles(_, _)
NonexistentFiles(filesystem, file_names) ==
    IF file_names = << >> THEN << >>
    ELSE (IF IsFile(filesystem, Head(file_names)) THEN << >> ELSE << Head(file_names) >>)
         \o NonexistentFiles(filesystem, Tail(file_names))

\* lines 150-151: files were given, split them
SplitFiles ==
    /\ pc = "start"
    /\ args.files # << >>
    /\ sources' = [i \in 1..Len(ExistingFiles(fs, args.files)) |->
                      Some(ExistingFiles(fs, args.files)[i])]
    /\ nonexistent_files' = NonexistentFiles(fs, args.files)
    /\ checked' = TRUE
    /\ idx' = 1
    /\ pc' = "read"
    /\ UNCHANGED << args, fs, err, all_lines, searcher, matched_lines, output_lines, k,
                    stdout, stderr, compiles, used, log, fn >>

\* lines 157-159: no files, read standard input
ReadStdin ==
    /\ pc = "start"
    /\ args.files = << >>
    /\ \E content \in FileContents : all_lines' = << content >>
    /\ sources' = << None >>
    /\ pc' = "label"
    /\ UNCHANGED << args, fs, err, nonexistent_files, searcher, idx, matched_lines,
                    output_lines, k, stdout, stderr, checked, compiles, used, log, fn >>

\* read_files, one turn of its loop: open() raises, or readlines() is appended
ReadFile ==
    /\ pc = "read"
    /\ idx <= Len(sources)
    /\ IF fs[sources[idx][1]].st = "ok"
       THEN /\ all_lines' = Append(all_lines, fs[sources[idx][1]].data)
            /\ idx' = idx + 1
            /\ UNCHANGED << pc, err >>
       ELSE /\ pc' = "raised"
            /\ err' = "OSError"
            /\ UNCHANGED << all_lines, idx >>
    /\ UNCHANGED << args, fs, sources, nonexistent_files, searcher, matched_lines,
                    output_lines, k, stdout, stderr, checked, compiles, used, log, fn >>

\* ReadDone without the return of line 156: the search goes on
ReadDoneSearchAnyway ==
    /\ pc = "read"
    /\ idx > Len(sources)
    /\ pc' = "label"
    /\ UNCHANGED << args, fs, err, sources, nonexistent_files, all_lines, searcher, idx,
                    matched_lines, output_lines, k, stdout, stderr, checked, compiles,
                    used, log, fn >>

\* read_files returns; line 153 decides between the diagnostics and the search
ReadDone ==
    /\ pc = "read"
    /\ idx > Len(sources)
    /\ IF nonexistent_files # << >>
       THEN pc' = "diag" /\ idx' = 1
       ELSE pc' = "label" /\ idx' = idx
    /\ UNCHANGED << args, fs, err, sources, nonexistent_files, all_lines, searcher,
                    matched_lines, output_lines, k, stdout, stderr, checked, compiles,
                    used, log, fn >>

\* lines 154-155, one turn
PrintDiag ==
    /\ pc = "diag"
    /\ idx <= Len(nonexistent_files)
    /\ stderr' = Append(stderr, NoSuchFile(nonexistent_files[idx]))
    /\ idx' = idx + 1
    /\ UNCHANGED << args, fs, pc, err, sources, nonexistent_files, all_lines, searcher,
                    matched_lines, output_lines, k, stdout, checked, compiles, used,
                    log, fn >>

\* line 156
ReturnMissing ==
    /\ pc = "diag"
    /\ idx > Len(nonexistent_files)
    /\ pc' = "done"
    /\ UNCHANGED << args, fs, err, sources, nonexistent_files, all_lines, searcher, idx,
                    matched_lines, output_lines, k, stdout, stderr, checked, compiles,
                    used, log, fn >>

\* Relabel that forgets -l and -L
RelabelAnySingle(a, srcs) == IF Len(a.files) = 1 THEN << None >> ELSE srcs

\* lines 161-162: the sources as relabelled
Relabel(a, srcs) ==
    IF Len(a.files) = 1 /\ ~a.only_files /\ ~a.only_not_files THEN << None >> ELSE srcs

AdjustLabel ==
    /\ pc = "label"
    /\ sources' = Relabel(args, sources)
    /\ pc' = "compile"
    /\ UNCHANGED << args, fs, err, nonexistent_files, all_lines, searcher, idx,
                    matched_lines, output_lines, k, stdout, stderr, checked, compiles,
                    used, log, fn >>

\* Compile that falls back to the literal pattern when re.compile raises
CompileFallback ==
    /\ pc = "compile"
    /\ compiles' = compiles + 1
    /\ LET s == compile_regex(args.pattern, args.regex, args.ignore)
       IN  searcher' = IF s.ok THEN s ELSE compile_regex(args.pattern, FALSE, args.ignore)
    /\ pc' = "loop"
    /\ idx' = 1
    /\ UNCHANGED << args, fs, err, sources, nonexistent_files, all_lines, matched_lines,
                    output_lines, k, stdout, stderr, checked, used, log, fn >>

\* line 164
Compile ==
    /\ pc = "compile"
    /\ compiles' = compiles + 1
    /\ LET s == compile_regex(args.pattern, args.regex, args.ignore)
       IN  IF s.ok
           THEN searcher' = s /\ pc' = "loop" /\ idx' = 1 /\ err' = err
           ELSE searcher' = searcher /\ pc' = "raised" /\ idx' = idx /\ err' = "re.error"
    /\ UNCHANGED << args, fs, sources, nonexistent_files, all_lines, matched_lines,
                    output_lines, k, stdout, stderr, checked, used, log, fn >>

\* a zip that pairs from the end
ZipReversed(a, b) ==
    LET n == IF Len(a) < Len(b) THEN Len(a) ELSE Len(b)
    IN  [i \in 1..n |-> << a[n + 1 - i], b[n + 1 - i] >>]

\* zip(all_lines, sources)
Zip(a, b) ==
    [i \in 1..(IF Len(a) < Len(b) THEN Len(a) ELSE Len(b)) |-> << a[i], b[i] >>]

\* FilterSource that compiles the pattern again for every source
FilterSourceRecompiling ==
    /\ pc = "loop"
    /\ idx <= Len(all_lines) /\ idx <= Len(sources)
    /\ compiles' = compiles + 1
    /\ matched_lines' = filter_lines(StripLines(all_lines[idx]),
                                     compile_regex(args.pattern, args.regex, args.ignore),
                                     args.invert, args.fullmatch)
    /\ used' = used \cup {compile_regex(args.pattern, args.regex, args.ignore)}
    /\ pc' = "format"
    /\ UNCHANGED << args, fs, err, sources, nonexistent_files, all_lines, searcher, idx,
                    output_lines, k, stdout, stderr, checked, log, fn >>

\* lines 166-168: the next pair of the zip is stripped and filtered
FilterSource ==
    /\ pc = "loop"
    /\ idx <= Len(Zip(all_lines, sources))
    /\ matched_lines' = filter_lines(StripLines(Zip(all_lines, sources)[idx][1]),
                                     searcher, args.invert, args.fullmatch)
    /\ used' = used \cup {searcher}
    /\ pc' = "format"
    /\ UNCHANGED << args, fs, err, sources, nonexistent_files, all_lines, searcher, idx,
                    output_lines, k, stdout, stderr, checked, compiles, log, fn >>

\* lines 169-170: prepare_output returns the rows, or its assert fails
PrepareOutput ==
    /\ pc = "format"
    /\ LET source == Zip(all_lines, sources)[idx][2]
       IN  IF AssertSource(source, args.only_files, args.only_not_files)
           THEN /\ output_lines' = prepare_output(matched_lines, source, args.counting,
                                                  args.only_files, args.only_not_files)
                /\ k' = 1
                /\ pc' = "print"
                /\ err' = err
           ELSE /\ pc' = "raised"
                /\ err' = "AssertionError"
                /\ UNCHANGED << output_lines, k >>
    /\ UNCHANGED << args, fs, sources, nonexistent_files, all_lines, searcher, idx,
                    matched_lines, stdout, stderr, checked, compiles, used, log, fn >>

\* print_matched_lines, one turn
PrintLine ==
    /\ pc = "print"
    /\ k <= Len(output_lines)
    /\ stdout' = Append(stdout, output_lines[k])
    /\ log' = Append(log, idx)
    /\ k' = k + 1
    /\ UNCHANGED << args, fs, pc, err, sources, nonexistent_files, all_lines, searcher,
                    idx, matched_lines, output_lines, stderr, checked, compiles, used, fn >>

\* print_matched_lines returns; the for loop of main advances
NextSource ==
    /\ pc = "print"
    /\ k > Len(output_lines)
    /\ idx' = idx + 1
    /\ pc' = "loop"
    /\ UNCHANGED << args, fs, err, sources, nonexistent_files, all_lines, searcher,
                    matched_lines, output_lines, k, stdout, stderr, checked, compiles,
                    used, log, fn >>

\* the zip is exhausted: main returns
ReturnSearched ==
    /\ pc = "loop"
    /\ idx > Len(Zip(all_lines, sources))
    /\ pc' = "done"
    /\ UNCHANGED << args, fs, err, sources, nonexistent_files, all_lines, searcher, idx,
                    matched_lines, output_lines, k, stdout, stderr, checked, compiles,
                    used, log, fn >>

\* ------------------------------------------- the functions on their own ----
\* lines handed to filter_lines (newline already stripped)
FnLineTexts == { << >>, <<"a">>, <<"A", "b">>, <<"b", "a">>, <<".">> }

FnPatterns == { << >>, <<"a">>, <<".">>, <<"a", "b">>, <<"(">>, <<"b", ".">> }

\* labels main can pass: None or a file name
FnSources == { None } \cup { Some(f) : f \in FileNames }

FnInputs ==
    { [pc |-> "start", a |-> a, lines |-> ls, source |-> src, searcher |-> NoSearcher,
       matched |-> << >>, out |-> << >>, err |-> "none"] :
        a \in Namespaces(FnPatterns, 0), ls \in SeqsUpTo(FnLineTexts, MaxLines),
        src \in FnSources }

InitFn ==
    /\ fn \in FnInputs
    /\ args = fn.a
    /\ fs = [f \in FileNames |-> [st |-> "missing", data |-> << >>]]
    /\ Locals

\* compile_regex on the inputs
FnCompile ==
    /\ fn.pc = "start"
    /\ LET s == compile_regex(fn.a.pattern, fn.a.regex, fn.a.ignore)
       IN  fn' = IF s.ok THEN [fn EXCEPT !.pc = "compiled", !.searcher = s]
                 ELSE [fn EXCEPT !.pc = "raised", !.err = "re.error"]
    /\ UNCHANGED << args, fs, pc, err, sources, nonexistent_files, all_lines, searcher,
                    idx, matched_lines, output_lines, k, stdout, stderr, checked,
                    compiles, used, log >>

\* filter_lines on the inputs
FnFilter ==
    /\ fn.pc = "compiled"
    /\ fn' = [fn EXCEPT !.pc = "filtered",
                        !.matched = filter_lines(fn.lines, fn.searcher, fn.a.invert,
                                                 fn.a.fullmatch)]
    /\ UNCHANGED << args, fs, pc, err, sources, nonexistent_files, all_lines, searcher,
                    idx, matched_lines, output_lines, k, stdout, stderr, checked,
                    compiles, used, log >>

\* prepare_output on the matched lines
FnFormat ==
    /\ fn.pc = "filtered"
    /\ fn' = IF AssertSource(fn.source, fn.a.only_files, fn.a.only_not_files)
             THEN [fn EXCEPT !.pc = "formatted",
                             !.out = prepare_output(fn.matched, fn.source, fn.a.counting,
                                                    fn.a.only_files, fn.a.only_not_files)]
             ELSE [fn EXCEPT !.pc = "raised", !.err = "AssertionError"]
    /\ UNCHANGED << args, fs, pc, err, sources, nonexistent_files, all_lines, searcher,
                    idx, matched_lines, output_lines, k, stdout, stderr, checked,
                    compiles, used, log >>

NextFn ==
    \/ FnCompile
    \/ FnFilter
    \/ FnFormat

SpecFn == InitFn /\ [][NextFn]_vars

Next ==
    \/ SplitFiles
    \/ ReadStdin
    \/ ReadFile
    \/ ReadDone
    \/ PrintDiag
    \/ ReturnMissing
    \/ AdjustLabel
    \/ Compile
    \/ FilterSource
    \/ PrepareOutput
    \/ PrintLine
    \/ NextSource
    \/ ReturnSearched

Spec == Init /\ [][Next]_vars

\* ============================================================= claims ====
\* main has returned or an exception has ended it
Terminated == pc \in {"done", "raised"}

\* some requested path is no regular file
SomeFileMissing == \E i \in 1..Len(args.files) : ~IsFile(fs, args.files[i])

\* some requested path is a regular file that cannot be read
SomeFileUnreadable == \E i \in 1..Len(args.files) : fs[args.files[i]].st = "unreadable"

\* the pattern of this run does not compile
BadPattern == ~compile_regex(args.pattern, args.regex, args.ignore).ok

\* C1: in a run where some requested path does not exist, no row is ever
\* written to standard output, whatever the other files hold and whatever
\* the flags are.
C1_NoRowsWhenFileMissing == SomeFileMissing => stdout = << >>

\* C1 witness: a run with a missing path and an existing file that has a line
\* matching the pattern has ended, its diagnostics printed.
C1_Witness ==
    /\ SomeFileMissing
    /\ pc = "done"
    /\ stderr # << >>
    /\ ~BadPattern
    /\ \E i \in 1..Len(all_lines) :
          filter_lines(StripLines(all_lines[i]), compile_regex(args.pattern, args.regex,
                       args.ignore), args.invert, args.fullmatch) # << >>

\* C2 (as claimed): once a run with file paths has ended, the error stream
\* holds "No such file: <path>" once for each missing path and nothing else,
\* also when an existing file was read, or failed to be read, first.
C2_DiagnosticPerMissingFile ==
    (Terminated /\ args.files # << >>) =>
        stderr = [i \in 1..Len(NonexistentFiles(fs, args.files)) |->
                     NoSuchFile(NonexistentFiles(fs, args.files)[i])]

\* the label the label-presence rule gives to the i-th requested source
RuleLabel(i) ==
    IF Len(args.files) > 1 \/ (Len(args.files) = 1 /\ (args.only_files \/ args.only_not_files))
    THEN Some(args.files[i])
    ELSE None

\* C3: when formatting is reached, the label passed to prepare_output is the
\* file name exactly when more than one path was given, or one path with -l
\* or -L; it is None for one path in Normal or Count mode and for standard input.
C3_LabelPresenceRule ==
    pc = "format" => Zip(all_lines, sources)[idx][2] = RuleLabel(idx)

\* C3 witness: a single file under -l or -L reaches formatting with its name.
C3_Witness ==
    /\ pc = "format"
    /\ Len(args.files) = 1
    /\ args.only_files \/ args.only_not_files
    /\ Zip(all_lines, sources)[idx][2] = Some(args.files[1])

\* the raw lines of the i-th requested source
RequestedLines(i) == IF args.files = << >> THEN all_lines[i] ELSE fs[args.files[i]].data

\* the rows the i-th requested source has to produce
RowsOf(i) ==
    prepare_output(filter_lines(StripLines(RequestedLines(i)), searcher, args.invert,
                                args.fullmatch),
                   RuleLabel(i), args.counting, args.only_files, args.only_not_files)

RECURSIVE EmittedBy(_, _)
\* the rows of stdout that were printed for source i, in the order printed
EmittedBy(i, n) ==
    IF n = 0 THEN << >>
    ELSE EmittedBy(i, n - 1) \o (IF log[n] = i THEN << stdout[n] >> ELSE << >>)

RECURSIVE IsSubSeq(_, _)
\* a is b with some elements left out
IsSubSeq(a, b) ==
    IF a = << >> THEN TRUE
    ELSE IF b = << >> THEN FALSE
    ELSE IF Head(a) = Head(b) THEN IsSubSeq(Tail(a), Tail(b))
    ELSE IsSubSeq(a, Tail(b))

\* the number of sources of the command line (standard input is one)
NumRequested == IF args.files = << >> THEN 1 ELSE Len(args.files)

\* the search loop of main is running or has finished
Searching == pc \in {"loop", "format", "print"} \/ (pc = "done" /\ compiles = 1)

\* C4: sources are gone through in command-line order; the rows of a source
\* are all printed before the next source is touched, never interleaved or
\* reordered, and the rows of one source follow the order of its lines.
C4_SourceOrder ==
    /\ \A i, j \in 1..Len(log) : i < j => log[i] <= log[j]
    /\ Len(log) = Len(stdout)
    /\ Searching =>
         \A i \in 1..NumRequested :
            /\ i < idx => EmittedBy(i, Len(log)) = RowsOf(i)
            /\ i > idx => EmittedBy(i, Len(log)) = << >>
            /\ (i = idx /\ pc = "print") =>
                  /\ k - 1 <= Len(RowsOf(i))
                  /\ EmittedBy(i, Len(log)) = [j \in 1..(k - 1) |-> RowsOf(i)[j]]
            /\ (i = idx /\ pc \in {"loop", "format"}) => EmittedBy(i, Len(log)) = << >>
            /\ (~args.counting /\ ~args.only_files /\ ~args.only_not_files) =>
                  IsSubSeq(EmittedBy(i, Len(log)),
                           prepare_output(StripLines(RequestedLines(i)), RuleLabel(i),
                                          FALSE, FALSE, FALSE))

\* C4 witness: two sources were searched, each has printed a row, and the
\* first one printed two.
C4_Witness ==
    /\ pc = "done"
    /\ Len(args.files) = 2
    /\ Len(EmittedBy(1, Len(log))) = 2
    /\ Len(EmittedBy(2, Len(log))) >= 1

\* C8 (as claimed): a run whose pattern does not compile ends with the
\* pattern error, with no source filtered and no row printed, whatever files
\* were given, a missing one included.  Stated for the runs in which every
\* existing file can be read, so that no read error stands in the way.
C8_PatternErrorAlways ==
    (BadPattern /\ Terminated /\ ~SomeFileUnreadable) =>
        (pc = "raised" /\ err = "re.error" /\ used = {} /\ stdout = << >>)

\* C8 (amended): a run whose pattern does not compile filters no source and
\* prints no row; it ends with the pattern error exactly when every requested
\* path exists and was read, with the missing-file diagnostics and a normal
\* return when a path is missing and the others were read, and with the read
\* error otherwise.
C8_PatternErrorWhenCompiled ==
    BadPattern =>
        /\ used = {}
        /\ stdout = << >>
        /\ Terminated =>
             /\ (err = "re.error") <=> (~SomeFileMissing /\ ~SomeFileUnreadable)
             /\ (pc = "done") <=> (SomeFileMissing /\ ~SomeFileUnreadable)
             /\ (err = "OSError") <=> SomeFileUnreadable
             /\ pc = "done" => stderr # << >>

\* C8 witness: files were given, all were read, and the pattern error ended
\* the run.
C8_Witness ==
    /\ BadPattern
    /\ pc = "raised"
    /\ err = "re.error"
    /\ Len(all_lines) = 2
    /\ \E i \in 1..2 : all_lines[i] # << >>

C10_CompiledOnce ==
    /\ compiles <= 1
    /\ (compiles = 1 /\ args.files # << >>) => checked
    /\ pc \in {"start", "read", "diag", "label", "compile"} => (compiles = 0 /\ used = {})
    /\ used # {} => (compiles = 1 /\ searcher.ok /\ used = {searcher})
    /\ searcher.ok => searcher = compile_regex(args.pattern, args.regex, args.ignore)

\* C10 witness: two sources were filtered in a run that compiled once.
C10_Witness ==
    /\ pc = "done"
    /\ Len(all_lines) = 2
    /\ idx = 3
    /\ compiles = 1
    /\ used = {searcher}

\* ------------------------------------------------ claims on the functions
\* 'label:' when a label is present, nothing otherwise
LabelPrefix(source) == IF source # None THEN source[1] \o << ":" >> ELSE << >>

RECURSIVE ParseDecimal(_)
\* the number a sequence of decimal digits denotes; -1 if it is no such sequence
ParseDecimal(d) ==
    IF d = << >> THEN -1
    ELSE LET last == d[Len(d)]
             v    == IF \E n \in 1..10 : Digits[n] = last
                     THEN (CHOOSE n \in 1..10 : Digits[n] = last) - 1 ELSE -1
         IN  IF v = -1 THEN -1
             ELSE IF Len(d) = 1 THEN v
             ELSE IF ParseDecimal(SubSeq(d, 1, Len(d) - 1)) = -1 THEN -1
             ELSE 10 * ParseDecimal(SubSeq(d, 1, Len(d) - 1)) + v

\* row starts with prefix
StartsWith(row, prefix) ==
    Len(row) >= Len(prefix) /\ SubSeq(row, 1, Len(prefix)) = prefix

\* C5: Count mode returns exactly one row per source, also for no match: the
\* decimal count of the matched lines behind 'label:' iff a label is present;
\* the count is the number of rows Normal mode returns for the same matched
\* lines, and a Normal-mode row is the matched line behind the same prefix.
C5_CountAndNormalRows ==
    (fn.pc = "formatted" /\ ~fn.a.only_files /\ ~fn.a.only_not_files) =>
        LET prefix == LabelPrefix(fn.source)
            normal == prepare_output(fn.matched, fn.source, FALSE, FALSE, FALSE)
        IN  /\ Len(normal) = Len(fn.matched)
            /\ \A i \in 1..Len(normal) : normal[i] = prefix \o fn.matched[i]
            /\ ~fn.a.counting => fn.out = normal
            /\ fn.a.counting =>
                 /\ Len(fn.out) = 1
                 /\ StartsWith(fn.out[1], prefix)
                 /\ ParseDecimal(SubSeq(fn.out[1], Len(prefix) + 1, Len(fn.out[1])))
                       = Len(normal)

\* C5 witness: Count mode on a labelled source of which no line matched.
C5_Witness ==
    /\ fn.pc = "formatted"
    /\ fn.a.counting
    /\ fn.source # None
    /\ fn.lines # << >>
    /\ fn.matched = << >>
    /\ Len(fn.out) = 1

\* C6: for a source with a usable label and the same matched lines, exactly
\* one of -l and -L returns the label: -l iff some line matched, -L iff none
\* did; neither mode returns any other row.
C6_ListModesComplement ==
    (fn.pc = "formatted" /\ (fn.a.only_files \/ fn.a.only_not_files)) =>
        LET label == fn.source[1]
            byl   == prepare_output(fn.matched, fn.source, FALSE, TRUE, FALSE)
            byL   == prepare_output(fn.matched, fn.source, FALSE, FALSE, TRUE)
        IN  /\ fn.source # None
            /\ fn.out = IF fn.a.only_files THEN byl ELSE byL
            /\ byl = IF fn.matched # << >> THEN << label >> ELSE << >>
            /\ byL = IF fn.matched = << >> THEN << label >> ELSE << >>
            /\ (byl = << label >>) # (byL = << label >>)
            /\ fn.out \in { << >>, << label >> }

\* C6 witness: -L on a labelled source of which no line matched returned the
\* label.
C6_Witness ==
    /\ fn.pc = "formatted"
    /\ fn.a.only_not_files
    /\ fn.lines # << >>
    /\ fn.matched = << >>
    /\ fn.out = << fn.source[1] >>

\* positions of lines the matcher selects under invert
Selected(lines, s, invert, fullmatch) ==
    { i \in 1..Len(lines) : RawMatch(lines[i], s, fullmatch) # invert }

RECURSIVE PickFrom(_, _, _)
\* the elements of lines at the positions of S from position n on, in order
PickFrom(lines, S, n) ==
    IF n > Len(lines) THEN << >>
    ELSE (IF n \in S THEN << lines[n] >> ELSE << >>) \o PickFrom(lines, S, n + 1)

\* C7: for a fixed matcher and fullmatch flag, filter_lines with and without
\* invert select disjoint sets of positions that together are all positions;
\* each result is the lines at its positions in their order, duplicates
\* kept: a line is selected iff rawMatch XOR invert.
C7_InvertPartitions ==
    fn.pc = "filtered" =>
        LET inv == filter_lines(fn.lines, fn.searcher, TRUE, fn.a.fullmatch)
            reg == filter_lines(fn.lines, fn.searcher, FALSE, fn.a.fullmatch)
            ip  == Selected(fn.lines, fn.searcher, TRUE, fn.a.fullmatch)
            rp  == Selected(fn.lines, fn.searcher, FALSE, fn.a.fullmatch)
        IN  /\ ip \cap rp = {}
            /\ ip \cup rp = 1..Len(fn.lines)
            /\ inv = PickFrom(fn.lines, ip, 1)
            /\ reg = PickFrom(fn.lines, rp, 1)
            /\ Len(inv) + Len(reg) = Len(fn.lines)
            /\ fn.matched = IF fn.a.invert THEN inv ELSE reg

\* C7 witness: two equal lines, both selected under -v.
C7_Witness ==
    /\ fn.pc = "filtered"
    /\ fn.a.invert
    /\ Len(fn.lines) = 2
    /\ fn.lines[1] = fn.lines[2]
    /\ fn.matched = fn.lines

====
